---------------------------- MODULE Spec2Model ----------------------------
(***************************************************************************)
(* GridTanks backend: the run-session progression engine of                *)
(* src/app/routes.py (ACTIVE_RUNS, LEVEL_METADATA and the request          *)
(* handlers) together with the declarative models of src/app/models.py.    *)
(*                                                                         *)
(* Every handler of routes.py is a coroutine that runs on one event loop   *)
(* and is only suspended at an await.  start_game, game_event,             *)
(* get_current_level and get_final_stats hold no await, and submit_score   *)
(* raises at the LeaderboardEntry constructor (routes.py:263) before it    *)
(* reaches its only await (routes.py:280), so each handler is one atomic   *)
(* step of the state machine.                                              *)
(*                                                                         *)
(* Spec handles one request at a time for one run.  SpecTwoRuns puts two   *)
(* runs side by side, SpecEviction starts from a store at the eviction     *)
(* threshold, and SpecConcurrent runs game_event statement by statement    *)
(* as coroutines of the event loop.                                        *)
(*                                                                         *)
(* Time: time.time() is a float; it is modelled in ticks of                *)
(* 1/TicksPerSecond second, and read from a clock that never runs          *)
(* backwards.                                                              *)
(***************************************************************************)
EXTENDS Integers, Sequences, FiniteSets, TLC

VARIABLES
    MAPS_DIR,        \* routes.py:22   the level files: N |-> grid of level_N.txt
    LEVEL_METADATA,  \* routes.py:35   level -> metadata, built once at import
    ACTIVE_RUNS,     \* routes.py:34   run_id -> game_state
    uuids,           \* routes.py:102  number of run ids handed out by uuid4()
    now,             \* time.time(), in ticks
    leaderboard,     \* models.py:7    rows of table "leaderboard"
    contact_info,    \* models.py:23   rows of table "contact_info"
    response,        \* the last request handled and the answer it was given
    final_stats,     \* run_id -> what /get-final-stats answered for the run
    handlers,        \* the game_event coroutines in flight, with their locals
    running,         \* the coroutine the event loop is running, 0 for none
    accepted         \* the store when the coroutines in flight were created

\* the event loop, looked at between the statements of a handler
loop_vars == <<handlers, running, accepted>>

vars == <<MAPS_DIR, LEVEL_METADATA, ACTIVE_RUNS, uuids, now, leaderboard,
          contact_info, response, final_stats, handlers, running, accepted>>

\* no coroutine is in flight
IdleLoop == handlers = <<>> /\ running = 0 /\ accepted = <<>>

-----------------------------------------------------------------------------
(* Bounds of the model *)

\* a per-type elimination count is not driven beyond MaxCount
MaxCount == 3

\* completed_levels is not driven beyond MaxCompleted entries
MaxCompleted == 3

\* clock resolution: ticks per second
TicksPerSecond == 2

\* the run ids uuid4() hands out, in this order; a handler reads and writes
\* ACTIVE_RUNS[run_id] alone, and one run shows what it does to a run
RunIds == {1}

\* the run ids clients send: those handed out, and 0, which never is
RequestRunIds == RunIds \cup {0}

\* the instants the clock is read at: 0 s, one tick, 61 s and one tick
TimePoints == {0, 1, 61 * TicksPerSecond + 1}

\* tank_type values sent by clients: the player, enemy types of the table,
\* and 9, a cell code that TANK_TYPES does not know
TankTypeInputs == {3, 4, 5, 6, 9}

\* <<len(username), len(email)>> sent by clients; 0 stands for a missing or
\* empty field
SubmitInputs == {<<3, 0>>, <<3, 9>>, <<0, 0>>, <<21, 0>>, <<3, 256>>}

-----------------------------------------------------------------------------
(* Program constants *)

\* routes.py:25-32
TANK_TYPES ==
    3 :> "player" @@ 4 :> "brown" @@ 5 :> "grey" @@ 6 :> "green" @@
    7 :> "pink" @@ 8 :> "black"

\* routes.py:99   if len(ACTIVE_RUNS) > 100
CLEANUP_THRESHOLD == 100

\* routes.py:39   cutoff = time.time() - 3600
MAX_AGE_SECONDS == 3600

\* routes.py:239  len(username) > 20
MAX_USERNAME == 20

\* routes.py:242  len(email) > 255
MAX_EMAIL == 255

\* game_state without the key "end_time" (routes.py:212, 251)
NoEndTime == -1

-----------------------------------------------------------------------------
(* Python helpers *)

\* dict.get(k, default)
Get(d, k, default) == IF k \in DOMAIN d THEN d[k] ELSE default

\* d[k] = v on a dict
Put(d, k, v) == [x \in DOMAIN d \cup {k} |-> IF x = k THEN v ELSE d[x]]

\* del d[k]
Del(d, k) == [x \in DOMAIN d \ {k} |-> d[x]]

\* sum(d.values())
RECURSIVE SumValues(_)
SumValues(d) ==
    IF DOMAIN d = {} THEN 0
    ELSE LET k == CHOOSE x \in DOMAIN d : TRUE
         IN  d[k] + SumValues(Del(d, k))

\* int(x) of the float num/den: truncation toward zero
IntTrunc(num, den) ==
    IF num >= 0 THEN num \div den ELSE -((-num) \div den)

\* f"{minutes}:{seconds:02d}"
FormatTime(minutes, seconds) ==
    ToString(minutes) \o ":"
        \o (IF seconds >= 0 /\ seconds < 10 THEN "0" ELSE "")
        \o ToString(seconds)

-----------------------------------------------------------------------------
(* Level catalog: preprocess_levels, routes.py:47-90 *)

\* The maps directories the server is started on.  A grid is the map
\* section of a level file: rows of cells; a cell that is not a number
\* (cell.isdigit() fails) is written -1.
MapsTwoLevels ==
    1 :> << <<0, 4, 0, 4>>, <<3, -1, 5, 0>> >> @@
    2 :> << <<3, 0, 6>>, <<6>> >>

MapsUnknownType ==
    1 :> << <<3, 9, -1>>, <<4, 0, 0>> >>

\* a maps directory that holds no level file
MapsNoLevels == <<>>

MapDirectories == {MapsTwoLevels, MapsUnknownType, MapsNoLevels}

\* routes.py:68  a row is scanned only "if line.strip() and ' ' in line":
\* a row of fewer than two cells holds no separator
ScannedRow(row) == Len(row) >= 2

\* routes.py:67-75  tank_counts of one map section
TankCounts(grid) ==
    LET cells == UNION {{<<i, j>> : j \in {k \in DOMAIN grid[i] :
                                               /\ ScannedRow(grid[i])
                                               /\ grid[i][k] >= 0}} :
                        i \in DOMAIN grid}
        types == {grid[c[1]][c[2]] : c \in {d \in cells : grid[d[1]][d[2]] > 3}}
    IN  [t \in types |->
            Cardinality({c \in cells : grid[c[1]][c[2]] = t})]

\* routes.py:77-85  (player_spawn and tank_type_names are read by no handler)
LevelInfo(grid) ==
    [total_enemy_tanks |-> SumValues(TankCounts(grid)),
     enemy_tank_types  |-> TankCounts(grid)]

\* routes.py:47-85
preprocess_levels(dir) == [n \in DOMAIN dir |-> LevelInfo(dir[n])]

\* routes.py:175-177, 196-197  (MAPS_DIR / f"level_{n}.txt").exists()
MapFileExists(n) == n \in DOMAIN MAPS_DIR

-----------------------------------------------------------------------------
(* Responses *)

\* What a handler answered: the HTTP status, the detail of an error, and the
\* fields of the body.  A field the body does not carry has its default
\* (FALSE, -1 or "").  An exception no handler catches is answered 500 with
\* the exception's name as detail.  at is the time the request was handled.
Resp(op, run_id, status, detail) ==
    [op |-> op, run_id |-> run_id, tank_type |-> -1,
     status |-> status, detail |-> detail,
     level_reset |-> FALSE, level_complete |-> FALSE, next_level |-> -1,
     game_complete |-> FALSE, current_level |-> -1, final_level |-> -1,
     time |-> "", time_seconds |-> -1, at |-> -1]

NoResponse == Resp("none", 0, 0, "")

-----------------------------------------------------------------------------
(* cleanup_old_runs, routes.py:37-45 *)

\* cleanup_old_runs as a sweep that also removes a run started exactly
\* MAX_AGE_SECONDS ago
cleanup_old_runs_Inclusive(runs, t) ==
    LET cutoff    == t - MAX_AGE_SECONDS * TicksPerSecond
        to_remove == {r \in DOMAIN runs : runs[r].start_time <= cutoff}
    IN  [r \in DOMAIN runs \ to_remove |-> runs[r]]

cleanup_old_runs(runs, t) ==
    LET cutoff    == t - MAX_AGE_SECONDS * TicksPerSecond
        to_remove == {r \in DOMAIN runs : runs[r].start_time < cutoff}
    IN  [r \in DOMAIN runs \ to_remove |-> runs[r]]

-----------------------------------------------------------------------------
(* start_game, routes.py:96-114 *)

\* routes.py:104-110
NewGameState(t) ==
    [current_level    |-> 1,
     tanks_eliminated |-> <<>>,
     total_eliminated |-> 0,
     start_time       |-> t,
     completed_levels |-> <<>>,
     end_time         |-> NoEndTime]

\* the store after /start-game creates run_id at time t
start_game(runs, run_id, t) ==
    LET kept == IF Cardinality(DOMAIN runs) > CLEANUP_THRESHOLD
                THEN cleanup_old_runs(runs, t)
                ELSE runs
    IN  Put(kept, run_id, NewGameState(t))

\* /start-game while the id it issues is one of ids
StartGameIn(ids) ==
    /\ uuids + 1 \in ids
    /\ uuids' = uuids + 1
    /\ ACTIVE_RUNS' = start_game(ACTIVE_RUNS, uuids + 1, now)
    /\ response' = [Resp("start_game", uuids + 1, 200, "")
                        EXCEPT !.current_level = 1, !.at = now]
    /\ UNCHANGED loop_vars
    /\ UNCHANGED <<MAPS_DIR, LEVEL_METADATA, now, leaderboard, contact_info,
                   final_stats>>

StartGame == StartGameIn(RunIds)

-----------------------------------------------------------------------------
(* game_event, routes.py:116-185 *)

\* ResetCurrentLevel as a reset that forgets the eliminations of every level
ResetCurrentLevel_AllLevels(game_state) ==
    [game_state EXCEPT !.tanks_eliminated = <<>>]

\* routes.py:127-128  reset the eliminations of the current level
ResetCurrentLevel(game_state) ==
    IF game_state.current_level \in DOMAIN game_state.tanks_eliminated
    THEN [game_state EXCEPT
            !.tanks_eliminated = Del(@, game_state.current_level)]
    ELSE game_state

\* routes.py:148-152  track the elimination of one tank of tank_type
TrackElimination(game_state, tank_type) ==
    LET current_level == game_state.current_level
        level_eliminations ==
            Get(game_state.tanks_eliminated, current_level, <<>>)
    IN  [game_state EXCEPT
            !.tanks_eliminated =
                Put(@, current_level,
                    Put(level_eliminations, tank_type,
                        Get(level_eliminations, tank_type, 0) + 1))]

\* routes.py:155  more tanks of tank_type eliminated than the level holds
TooManyEliminated(level_eliminations, level_info, tank_type) ==
    level_eliminations[tank_type] > level_info.enemy_tank_types[tank_type]

\* LevelComplete as a comparison that also fires beyond the total
LevelComplete_AtLeast(level_eliminations, level_info) ==
    SumValues(level_eliminations) >= level_info.total_enemy_tanks

\* routes.py:159-160
LevelComplete(level_eliminations, level_info) ==
    SumValues(level_eliminations) = level_info.total_enemy_tanks

\* routes.py:170-183  the game state after its current level was completed
CompleteLevel(game_state) ==
    LET current_level == game_state.current_level
        appended == [game_state EXCEPT
                        !.completed_levels = Append(@, current_level)]
    IN  IF MapFileExists(current_level + 1)
        THEN [appended EXCEPT !.current_level = current_level + 1]
        ELSE appended

\* EnemyEliminated as a handler that creates the elimination entry of the
\* current level before it validates the level and the tank type
EnemyEliminated_EntryFirst(runs, run_id, tank_type) ==
    LET game_state    == runs[run_id]
        current_level == game_state.current_level
        level_info    == LEVEL_METADATA[current_level]
        tracked       == TrackElimination(game_state, tank_type)
        entered       == [game_state EXCEPT
                             !.tanks_eliminated =
                                 Put(@, current_level,
                                     Get(@, current_level, <<>>))]
        level_eliminations == tracked.tanks_eliminated[current_level]
        level_complete == LevelComplete(level_eliminations, level_info)
        ok == [Resp("game_event", run_id, 200, "Tank elimination recorded")
                  EXCEPT !.tank_type = tank_type,
                         !.level_complete = level_complete]
    IN  IF current_level \notin DOMAIN LEVEL_METADATA
        THEN [runs |-> [runs EXCEPT ![run_id] = entered],
              response |-> Resp("game_event", run_id, 400, "Invalid level")]
        ELSE IF tank_type \notin DOMAIN level_info.enemy_tank_types
        THEN [runs |-> [runs EXCEPT ![run_id] = entered],
              response |-> Resp("game_event", run_id, 400,
                                "Invalid tank type for current level")]
        ELSE IF TooManyEliminated(level_eliminations, level_info, tank_type)
        THEN [runs |-> [runs EXCEPT ![run_id] = tracked],
              response |-> Resp("game_event", run_id, 400,
                                "Too many tanks eliminated")]
        ELSE IF ~level_complete
        THEN [runs |-> [runs EXCEPT ![run_id] = tracked],
              response |-> ok]
        ELSE IF MapFileExists(current_level + 1)
        THEN [runs |-> [runs EXCEPT ![run_id] = CompleteLevel(tracked)],
              response |-> [ok EXCEPT
                  !.next_level = current_level + 1,
                  !.detail = "Level complete! Advancing to next level."]]
        ELSE [runs |-> [runs EXCEPT ![run_id] = CompleteLevel(tracked)],
              response |-> [ok EXCEPT
                  !.game_complete = TRUE,
                  !.detail = "Congratulations! Game completed!"]]

\* routes.py:135-185  the enemy branch, for a run of the store
EnemyEliminated(runs, run_id, tank_type) ==
    LET game_state    == runs[run_id]
        current_level == game_state.current_level
        level_info    == LEVEL_METADATA[current_level]
        tracked       == TrackElimination(game_state, tank_type)
        level_eliminations == tracked.tanks_eliminated[current_level]
        level_complete == LevelComplete(level_eliminations, level_info)
        ok == [Resp("game_event", run_id, 200, "Tank elimination recorded")
                  EXCEPT !.tank_type = tank_type,
                         !.level_complete = level_complete]
    IN  IF current_level \notin DOMAIN LEVEL_METADATA
        THEN [runs |-> runs,
              response |-> Resp("game_event", run_id, 400, "Invalid level")]
        ELSE IF tank_type \notin DOMAIN level_info.enemy_tank_types
        THEN [runs |-> runs,
              response |-> Resp("game_event", run_id, 400,
                                "Invalid tank type for current level")]
        ELSE IF TooManyEliminated(level_eliminations, level_info, tank_type)
        THEN [runs |-> [runs EXCEPT ![run_id] = tracked],
              response |-> Resp("game_event", run_id, 400,
                                "Too many tanks eliminated")]
        ELSE IF ~level_complete
        THEN [runs |-> [runs EXCEPT ![run_id] = tracked],
              response |-> ok]
        ELSE IF MapFileExists(current_level + 1)
        THEN [runs |-> [runs EXCEPT ![run_id] = CompleteLevel(tracked)],
              response |-> [ok EXCEPT
                  !.next_level = current_level + 1,
                  !.detail = "Level complete! Advancing to next level."]]
        ELSE [runs |-> [runs EXCEPT ![run_id] = CompleteLevel(tracked)],
              response |-> [ok EXCEPT
                  !.game_complete = TRUE,
                  !.detail = "Congratulations! Game completed!"]]

\* routes.py:116-185  the store and the answer after /game-event
game_event(runs, run_id, tank_type) ==
    IF run_id \notin DOMAIN runs
    THEN \* routes.py:120  ACTIVE_RUNS[run_id] raises KeyError
         [runs |-> runs, response |-> Resp("game_event", run_id, 500, "KeyError")]
    ELSE IF tank_type \notin DOMAIN TANK_TYPES
    THEN \* routes.py:123  TANK_TYPES[tank_type] raises KeyError
         [runs |-> runs, response |-> Resp("game_event", run_id, 500, "KeyError")]
    ELSE IF TANK_TYPES[tank_type] = "player"
    THEN [runs |-> [runs EXCEPT ![run_id] = ResetCurrentLevel(@)],
          response |-> [Resp("game_event", run_id, 200,
                             "Player eliminated - level reset")
                           EXCEPT !.level_reset = TRUE,
                                  !.current_level = runs[run_id].current_level]]
    ELSE EnemyEliminated(runs, run_id, tank_type)

\* the counts and completed_levels of a store stay within the model's bounds
WithinBounds(runs) ==
    \A r \in DOMAIN runs :
        /\ Len(runs[r].completed_levels) <= MaxCompleted
        /\ \A l \in DOMAIN runs[r].tanks_eliminated :
              \A t \in DOMAIN runs[r].tanks_eliminated[l] :
                  runs[r].tanks_eliminated[l][t] <= MaxCount

GameEvent(run_id, tank_type) ==
    LET out == game_event(ACTIVE_RUNS, run_id, tank_type)
    IN  /\ WithinBounds(out.runs)
        /\ ACTIVE_RUNS' = out.runs
        /\ response' = [out.response EXCEPT !.tank_type = tank_type,
                                            !.at = now]
        /\ UNCHANGED loop_vars
        /\ UNCHANGED <<MAPS_DIR, LEVEL_METADATA, uuids, now, leaderboard,
                       contact_info, final_stats>>

-----------------------------------------------------------------------------
(* get_current_level, routes.py:187-200 *)

get_current_level(runs, run_id) ==
    IF run_id \notin DOMAIN runs
    THEN Resp("level", run_id, 404, "Run not found")
    ELSE IF ~MapFileExists(runs[run_id].current_level)
    THEN [Resp("level", run_id, 200, "") EXCEPT
             !.game_complete = TRUE,
             !.final_level = runs[run_id].current_level - 1]
    ELSE \* PlainTextResponse(map_file.read_text())
         [Resp("level", run_id, 200, "map") EXCEPT
             !.current_level = runs[run_id].current_level]

GetCurrentLevel(run_id) ==
    /\ response' = [get_current_level(ACTIVE_RUNS, run_id) EXCEPT !.at = now]
    /\ UNCHANGED loop_vars
    /\ UNCHANGED <<MAPS_DIR, LEVEL_METADATA, ACTIVE_RUNS, uuids, now,
                   leaderboard, contact_info, final_stats>>

-----------------------------------------------------------------------------
(* get_final_stats, routes.py:202-227 *)

\* FreezeEndTime as a write that does not look for an earlier end time
FreezeEndTime_Overwrite(game_state, t) ==
    [game_state EXCEPT !.end_time = t]

\* routes.py:212-213 and 251-252  freeze the end time at time t
FreezeEndTime(game_state, t) ==
    IF game_state.end_time = NoEndTime
    THEN [game_state EXCEPT !.end_time = t]
    ELSE game_state

\* routes.py:217-222  total_time_seconds is the float elapsed/TicksPerSecond;
\* minutes = int(total // 60), seconds = int(total % 60)
StatsFormattedTime(game_state) ==
    LET elapsed == game_state.end_time - game_state.start_time
        minutes == elapsed \div (60 * TicksPerSecond)
        seconds == IntTrunc(elapsed % (60 * TicksPerSecond), TicksPerSecond)
    IN  FormatTime(minutes, seconds)

\* get_final_stats as a handler that freezes the end time of every run
get_final_stats_FreezeAll(runs, run_id, t) ==
    IF run_id \notin DOMAIN runs
    THEN [runs |-> runs,
          response |-> Resp("get_final_stats", run_id, 404, "Run not found")]
    ELSE LET game_state == FreezeEndTime(runs[run_id], t)
         IN  [runs |-> [r \in DOMAIN runs |-> FreezeEndTime(runs[r], t)],
              response |-> [Resp("get_final_stats", run_id, 200, "") EXCEPT
                  !.final_level = game_state.current_level,
                  !.time = StatsFormattedTime(game_state)]]

get_final_stats(runs, run_id, t) ==
    IF run_id \notin DOMAIN runs
    THEN [runs |-> runs,
          response |-> Resp("get_final_stats", run_id, 404, "Run not found")]
    ELSE LET game_state == FreezeEndTime(runs[run_id], t)
         IN  [runs |-> [runs EXCEPT ![run_id] = game_state],
              response |-> [Resp("get_final_stats", run_id, 200, "") EXCEPT
                  !.final_level = game_state.current_level,
                  !.time = StatsFormattedTime(game_state)]]

GetFinalStats(run_id) ==
    LET out == get_final_stats(ACTIVE_RUNS, run_id, now)
    IN  /\ ACTIVE_RUNS' = out.runs
        /\ response' = [out.response EXCEPT !.at = now]
        /\ final_stats' =
               IF out.response.status # 200 THEN final_stats
               ELSE IF run_id \in DOMAIN final_stats
               THEN [final_stats EXCEPT ![run_id].again = TRUE]
               ELSE Put(final_stats, run_id,
                        [first |-> out.response.time, again |-> FALSE])
        /\ UNCHANGED loop_vars
        /\ UNCHANGED <<MAPS_DIR, LEVEL_METADATA, uuids, now, leaderboard,
                       contact_info>>

-----------------------------------------------------------------------------
(* The declarative models, models.py *)

\* models.py:10-16  the columns of LeaderboardEntry
LeaderboardEntryColumns ==
    {"id", "username", "completed_levels", "time_seconds", "formatted_time",
     "deaths", "date_submitted"}

\* models.py:11-15  nullable=False columns with neither a default nor a
\* generated value
LeaderboardEntryRequired ==
    {"username", "completed_levels", "time_seconds", "formatted_time", "deaths"}

\* The constructor of a declarative class accepts only keyword arguments
\* that name attributes of the class and raises TypeError for any other.
ConstructorAccepts(columns, kwargs) == DOMAIN kwargs \subseteq columns

\* models.py:32-34  UniqueConstraint('username', 'email')
ContactUnique(rows, contact) ==
    \A i \in DOMAIN rows :
        ~(rows[i].username = contact.username /\ rows[i].email = contact.email)

-----------------------------------------------------------------------------
(* submit_score, routes.py:229-290 *)

\* SubmitTimeSeconds as round() in place of int()
SubmitTimeSeconds_Rounded(game_state) ==
    (2 * (game_state.end_time - game_state.start_time) + TicksPerSecond)
        \div (2 * TicksPerSecond)

\* routes.py:255  total_time_seconds = int(end_time - start_time)
SubmitTimeSeconds(game_state) ==
    IntTrunc(game_state.end_time - game_state.start_time, TicksPerSecond)

\* routes.py:258-260
SubmitFormattedTime(total_time_seconds) ==
    FormatTime(total_time_seconds \div 60, total_time_seconds % 60)

\* routes.py:263-268  the keyword arguments given to LeaderboardEntry
EntryKwargs(run_id, username, game_state) ==
    [username       |-> username,
     stage_reached  |-> game_state.current_level,
     time_seconds   |-> SubmitTimeSeconds(game_state),
     formatted_time |-> SubmitFormattedTime(SubmitTimeSeconds(game_state))]

\* routes.py:229-290  username and email are given by their lengths (0: the
\* field is missing or empty).  The fields final_level, time_seconds and
\* time of the answer hold the handler's locals of routes.py:254-260, also
\* when the request fails after computing them.
submit_score(runs, run_id, username, email, t, lb_rows, contact_rows) ==
    LET same(resp) == [runs |-> runs, response |-> resp,
                       leaderboard |-> lb_rows, contact_info |-> contact_rows]
    IN
    IF username = 0
    THEN same(Resp("submit_score", run_id, 400, "Username is required"))
    ELSE IF username > MAX_USERNAME
    THEN same(Resp("submit_score", run_id, 400,
                   "Username must be 20 characters or less"))
    ELSE IF email # 0 /\ email > MAX_EMAIL
    THEN same(Resp("submit_score", run_id, 400,
                   "Email must be 255 characters or less"))
    ELSE IF run_id \notin DOMAIN runs
    THEN same(Resp("submit_score", run_id, 404, "Run not found"))
    ELSE
    LET game_state == FreezeEndTime(runs[run_id], t)
        frozen     == [runs EXCEPT ![run_id] = game_state]
        kwargs     == EntryKwargs(run_id, username, game_state)
        contact    == [username |-> username, email |-> email]
        with_contact == IF email # 0 THEN Append(contact_rows, contact)
                        ELSE contact_rows
        computed(status, detail) ==
            [Resp("submit_score", run_id, status, detail) EXCEPT
                !.final_level  = kwargs.stage_reached,
                !.time_seconds = kwargs.time_seconds,
                !.time         = kwargs.formatted_time]
    IN
    IF ~ConstructorAccepts(LeaderboardEntryColumns, kwargs)
    THEN \* routes.py:263  LeaderboardEntry(...) raises TypeError
         [runs |-> frozen, response |-> computed(500, "TypeError"),
          leaderboard |-> lb_rows, contact_info |-> contact_rows]
    ELSE IF \/ ~(LeaderboardEntryRequired \subseteq DOMAIN kwargs)
            \/ (email # 0 /\ ~ContactUnique(contact_rows, contact))
    THEN \* routes.py:280  db.commit() raises IntegrityError
         [runs |-> frozen, response |-> computed(500, "IntegrityError"),
          leaderboard |-> lb_rows, contact_info |-> contact_rows]
    ELSE \* routes.py:270-290  the rows are committed and the run is deleted
         [runs |-> Del(frozen, run_id),
          response |-> computed(200, "Score submitted successfully"),
          leaderboard |-> Append(lb_rows, [kwargs EXCEPT !.username = username]),
          contact_info |-> with_contact]

SubmitScore(run_id, username, email) ==
    LET out == submit_score(ACTIVE_RUNS, run_id, username, email, now,
                            leaderboard, contact_info)
    IN  /\ ACTIVE_RUNS' = out.runs
        /\ response' = [out.response EXCEPT !.at = now]
        /\ leaderboard' = out.leaderboard
        /\ contact_info' = out.contact_info
        /\ UNCHANGED loop_vars
        /\ UNCHANGED <<MAPS_DIR, LEVEL_METADATA, uuids, now, final_stats>>

-----------------------------------------------------------------------------
(* The clock and the state machine *)

\* time passes between two requests
\* the clock moves on to a later one of the time points
TickTo(points) ==
    /\ \E t \in points : t > now /\ now' = t
    /\ UNCHANGED loop_vars
    /\ UNCHANGED <<MAPS_DIR, LEVEL_METADATA, ACTIVE_RUNS, uuids, leaderboard,
                   contact_info, response, final_stats>>

Tick == TickTo(TimePoints)

\* routes.py:34-35, 90  the module is imported: no run, the catalog built
Init ==
    /\ MAPS_DIR \in MapDirectories
    /\ LEVEL_METADATA = preprocess_levels(MAPS_DIR)
    /\ ACTIVE_RUNS = <<>>
    /\ uuids = 0
    /\ now = 0
    /\ leaderboard = <<>>
    /\ contact_info = <<>>
    /\ response = NoResponse
    /\ final_stats = <<>>
    /\ IdleLoop

Next ==
    \/ Tick
    \/ StartGame
    \/ \E r \in RequestRunIds, tank_type \in TankTypeInputs : GameEvent(r, tank_type)
    \/ \E r \in RequestRunIds : GetCurrentLevel(r)
    \/ \E r \in RequestRunIds : GetFinalStats(r)
    \/ \E r \in RequestRunIds, in \in SubmitInputs : SubmitScore(r, in[1], in[2])

Spec == Init /\ [][Next]_vars

-----------------------------------------------------------------------------
(* Two runs side by side.  The clock stands still: what a request on one run
   does to the other run does not depend on the time. *)

\* two levels of one enemy tank each
MapsShort == 1 :> << <<3, 4>> >> @@ 2 :> << <<3, 0>>, <<0, 5>> >>

InitTwoRuns ==
    /\ MAPS_DIR = MapsShort
    /\ LEVEL_METADATA = preprocess_levels(MAPS_DIR)
    /\ ACTIVE_RUNS = <<>>
    /\ uuids = 0
    /\ now = 0
    /\ leaderboard = <<>>
    /\ contact_info = <<>>
    /\ response = NoResponse
    /\ final_stats = <<>>
    /\ IdleLoop

TwoRunIds == {1, 2}

TwoRunRequestIds == TwoRunIds \cup {0}

\* the tank types and the /submit-score bodies sent to the two runs
TwoRunTankTypes == {3, 4, 5}

TwoRunSubmitInputs == {<<3, 9>>}

NextTwoRuns ==
    \/ StartGameIn(TwoRunIds)
    \/ \E r \in TwoRunRequestIds, t \in TwoRunTankTypes : GameEvent(r, t)
    \/ \E r \in TwoRunRequestIds : GetCurrentLevel(r)
    \/ \E r \in TwoRunRequestIds : GetFinalStats(r)
    \/ \E r \in TwoRunRequestIds, in \in TwoRunSubmitInputs :
          SubmitScore(r, in[1], in[2])

SpecTwoRuns == InitTwoRuns /\ [][NextTwoRuns]_vars

-----------------------------------------------------------------------------
(* A store at the eviction threshold.  The store holds CLEANUP_THRESHOLD runs,
   or one more, left by as many /start-game requests: the first of them
   issued at time 0, the others at time 1. *)

\* how many of the runs were started at time 0
EarlyRuns == {0, 1, CLEANUP_THRESHOLD - 1}

\* the times around the age limit of runs started at time 0 and at time 1
EvictionTimePoints ==
    {1, MAX_AGE_SECONDS * TicksPerSecond,
        MAX_AGE_SECONDS * TicksPerSecond + 1,
        MAX_AGE_SECONDS * TicksPerSecond + 2}

\* the ids /start-game issues next
EvictionRunIds == (CLEANUP_THRESHOLD + 1) .. (CLEANUP_THRESHOLD + 3)

\* the run that receives requests, and the enemy types sent to it
EvictionRequestIds == {CLEANUP_THRESHOLD}

EvictionTankTypes == {4, 5}

InitEviction ==
    /\ MAPS_DIR = MapsShort
    /\ LEVEL_METADATA = preprocess_levels(MAPS_DIR)
    /\ \E n \in {CLEANUP_THRESHOLD, CLEANUP_THRESHOLD + 1}, early \in EarlyRuns :
          /\ ACTIVE_RUNS = [r \in 1 .. n |->
                               NewGameState(IF r <= early THEN 0 ELSE 1)]
          /\ uuids = n
    /\ now = 1
    /\ leaderboard = <<>>
    /\ contact_info = <<>>
    /\ response = [Resp("start_game", uuids, 200, "")
                       EXCEPT !.current_level = 1, !.at = now]
    /\ final_stats = <<>>
    /\ IdleLoop

NextEviction ==
    \/ TickTo(EvictionTimePoints)
    \/ StartGameIn(EvictionRunIds)
    \/ \E r \in EvictionRequestIds, t \in EvictionTankTypes : GameEvent(r, t)
    \/ \E r \in EvictionRequestIds : GetFinalStats(r)

SpecEviction == InitEviction /\ [][NextEviction]_vars

-----------------------------------------------------------------------------
(* game_event statement by statement, routes.py:116-185.  Two /game-event
   requests for one run arrive together and each becomes a coroutine of the
   event loop.  The loop runs a coroutine until it returns, raises, or
   reaches an await, and only then runs another one.  game_state and
   level_eliminations are references into ACTIVE_RUNS and are read here
   through the store. *)

\* game_event with an await before the completion of the level is applied
SuspensionPoints_BeforeCompletion == {"complete"}

\* routes.py:116-185  the statements of game_event at which the coroutine
\* can be suspended: the handler holds no await
SuspensionPoints == {}

\* the coroutines in flight
Slots == {1, 2}

\* routes.py:117-119  the coroutine of /game-event {run_id, tank_type}
NewHandler(run_id, tank_type) ==
    [run_id |-> run_id, tank_type |-> tank_type, pc |-> "read",
     current_level |-> -1, level_complete |-> FALSE, response |-> NoResponse]

\* the coroutine returned or raised: resp is what the client is answered
Returned(h, resp) == [h EXCEPT !.pc = "done", !.response = resp]

\* routes.py:120-121  game_state = ACTIVE_RUNS[run_id]; current_level = ...
ReadRun(runs, h) ==
    IF h.run_id \notin DOMAIN runs
    THEN [runs |-> runs,
          handler |-> Returned(h, Resp("game_event", h.run_id, 500, "KeyError"))]
    ELSE [runs |-> runs,
          handler |-> [h EXCEPT !.pc = "dispatch",
                                !.current_level = runs[h.run_id].current_level]]

\* routes.py:123-145  the player branch, and the validation of an enemy event
Dispatch(runs, h) ==
    LET run_id        == h.run_id
        tank_type     == h.tank_type
        current_level == h.current_level
        game_state    == runs[run_id]
        failed(status, detail) ==
            [runs |-> runs,
             handler |-> Returned(h, Resp("game_event", run_id, status, detail))]
    IN  IF tank_type \notin DOMAIN TANK_TYPES
        THEN failed(500, "KeyError")
        ELSE IF TANK_TYPES[tank_type] = "player"
        THEN [runs |-> IF current_level \in DOMAIN game_state.tanks_eliminated
                       THEN [runs EXCEPT ![run_id].tanks_eliminated =
                                             Del(@, current_level)]
                       ELSE runs,
              handler |-> Returned(h,
                  [Resp("game_event", run_id, 200,
                        "Player eliminated - level reset")
                      EXCEPT !.level_reset = TRUE,
                             !.current_level = current_level])]
        ELSE IF run_id \notin DOMAIN runs
        THEN failed(404, "Run not found")
        ELSE IF current_level \notin DOMAIN LEVEL_METADATA
        THEN failed(400, "Invalid level")
        ELSE IF tank_type
                   \notin DOMAIN LEVEL_METADATA[current_level].enemy_tank_types
        THEN failed(400, "Invalid tank type for current level")
        ELSE [runs |-> runs, handler |-> [h EXCEPT !.pc = "track"]]

\* routes.py:147-152  create the entry of the level, count the tank
Track(runs, h) ==
    LET level_eliminations ==
            Get(runs[h.run_id].tanks_eliminated, h.current_level, <<>>)
    IN  [runs |-> [runs EXCEPT ![h.run_id].tanks_eliminated =
                      Put(@, h.current_level,
                          Put(level_eliminations, h.tank_type,
                              Get(level_eliminations, h.tank_type, 0) + 1))],
         handler |-> [h EXCEPT !.pc = "check"]]

\* routes.py:154-168  the over-elimination check and level_complete
Check(runs, h) ==
    LET level_eliminations == runs[h.run_id].tanks_eliminated[h.current_level]
        level_info         == LEVEL_METADATA[h.current_level]
    IN  IF TooManyEliminated(level_eliminations, level_info, h.tank_type)
        THEN [runs |-> runs,
              handler |-> Returned(h, Resp("game_event", h.run_id, 400,
                                           "Too many tanks eliminated"))]
        ELSE [runs |-> runs,
              handler |-> [h EXCEPT
                  !.pc = "complete",
                  !.level_complete =
                      LevelComplete(level_eliminations, level_info)]]

\* routes.py:170-185  apply the completion of the level and return
Complete(runs, h) ==
    LET current_level == h.current_level
        ok == [Resp("game_event", h.run_id, 200, "Tank elimination recorded")
                  EXCEPT !.level_complete = h.level_complete]
    IN  IF ~h.level_complete
        THEN [runs |-> runs, handler |-> Returned(h, ok)]
        ELSE IF MapFileExists(current_level + 1)
        THEN [runs |-> [runs EXCEPT
                  ![h.run_id].completed_levels = Append(@, current_level),
                  ![h.run_id].current_level = current_level + 1],
              handler |-> Returned(h, [ok EXCEPT
                  !.next_level = current_level + 1,
                  !.detail = "Level complete! Advancing to next level."])]
        ELSE [runs |-> [runs EXCEPT
                  ![h.run_id].completed_levels = Append(@, current_level)],
              handler |-> Returned(h, [ok EXCEPT
                  !.game_complete = TRUE,
                  !.detail = "Congratulations! Game completed!"])]

\* the next statements of coroutine h, up to its next program point
Statements(runs, h) ==
    CASE h.pc = "read"     -> ReadRun(runs, h)
      [] h.pc = "dispatch" -> Dispatch(runs, h)
      [] h.pc = "track"    -> Track(runs, h)
      [] h.pc = "check"    -> Check(runs, h)
      [] h.pc = "complete" -> Complete(runs, h)

\* two /game-event requests for run_id arrive while the loop is idle
Accept(run_id, first, second) ==
    /\ handlers = <<>>
    /\ WithinBounds(game_event(game_event(ACTIVE_RUNS, run_id, first).runs,
                               run_id, second).runs)
    /\ WithinBounds(game_event(game_event(ACTIVE_RUNS, run_id, second).runs,
                               run_id, first).runs)
    /\ handlers' = <<NewHandler(run_id, first), NewHandler(run_id, second)>>
    /\ running' = 0
    /\ accepted' = ACTIVE_RUNS
    /\ UNCHANGED <<MAPS_DIR, LEVEL_METADATA, ACTIVE_RUNS, uuids, now,
                   leaderboard, contact_info, response, final_stats>>

\* the event loop runs coroutine i up to its next program point; it keeps
\* running i unless i returned, raised, or stands at a suspension point
RunHandler(i) ==
    /\ i \in DOMAIN handlers
    /\ handlers[i].pc # "done"
    /\ running \in {0, i}
    /\ LET out == Statements(ACTIVE_RUNS, handlers[i])
           finished == out.handler.pc = "done"
       IN  /\ WithinBounds(out.runs)
           /\ ACTIVE_RUNS' = out.runs
           /\ handlers' = [handlers EXCEPT ![i] = out.handler]
           /\ running' = IF finished \/ out.handler.pc \in SuspensionPoints
                         THEN 0 ELSE i
           /\ response' = IF finished
                          THEN [out.handler.response EXCEPT
                                   !.tank_type = handlers[i].tank_type,
                                   !.at = now]
                          ELSE response
    /\ UNCHANGED <<MAPS_DIR, LEVEL_METADATA, uuids, now, leaderboard,
                   contact_info, final_stats, accepted>>

\* every coroutine in flight has answered
AllReturned ==
    handlers # <<>> /\ \A i \in DOMAIN handlers : handlers[i].pc = "done"

\* the answers are sent and the loop is idle again
Respond ==
    /\ AllReturned
    /\ handlers' = <<>>
    /\ running' = 0
    /\ accepted' = <<>>
    /\ UNCHANGED <<MAPS_DIR, LEVEL_METADATA, ACTIVE_RUNS, uuids, now,
                   leaderboard, contact_info, response, final_stats>>

NextConcurrent ==
    \/ handlers = <<>> /\ StartGame
    \/ \E r \in RequestRunIds, a \in TankTypeInputs, b \in TankTypeInputs :
          Accept(r, a, b)
    \/ \E i \in Slots : RunHandler(i)
    \/ Respond

SpecConcurrent == Init /\ [][NextConcurrent]_vars

-----------------------------------------------------------------------------
(* Properties *)

\* tanks_eliminated[level][tank_type] of a game state, 0 where no count is kept
Count(game_state, level, tank_type) ==
    Get(Get(game_state.tanks_eliminated, level, <<>>), tank_type, 0)

PlayerTypes == {t \in DOMAIN TANK_TYPES : TANK_TYPES[t] = "player"}

\* C1: an enemy event rejected with "Too many tanks eliminated" leaves the
\* count of its tank type on the current level as it was before the event.
C1_OverEliminationRolledBack ==
    [][\A r \in RequestRunIds, t \in TankTypeInputs :
          (/\ response'.detail = "Too many tanks eliminated"
           /\ response'.run_id = r /\ response'.tank_type = t
           /\ GameEvent(r, t))
          => Count(ACTIVE_RUNS'[r], ACTIVE_RUNS[r].current_level, t)
                 = Count(ACTIVE_RUNS[r], ACTIVE_RUNS[r].current_level, t)]_vars

\* C2: in every state, every recorded count is at most the catalog's count
\* of that tank type on that level, and the counts recorded for a level sum
\* to at most its total_enemy_tanks.
C2_CountsWithinCatalog ==
    \A r \in DOMAIN ACTIVE_RUNS :
        \A l \in DOMAIN ACTIVE_RUNS[r].tanks_eliminated :
            LET level_eliminations == ACTIVE_RUNS[r].tanks_eliminated[l]
            IN  /\ l \in DOMAIN LEVEL_METADATA
                /\ \A t \in DOMAIN level_eliminations :
                      /\ t \in DOMAIN LEVEL_METADATA[l].enemy_tank_types
                      /\ level_eliminations[t]
                             <= LEVEL_METADATA[l].enemy_tank_types[t]
                /\ SumValues(level_eliminations)
                       <= LEVEL_METADATA[l].total_enemy_tanks

\* C3: over the life of a run a level is appended to completed_levels at
\* most once: completed_levels never holds a level twice.
C3_CompletedOnce ==
    \A r \in DOMAIN ACTIVE_RUNS :
        LET completed_levels == ACTIVE_RUNS[r].completed_levels
        IN  \A i, j \in DOMAIN completed_levels :
                i # j => completed_levels[i] # completed_levels[j]

\* C4: an accepted enemy event answers level_complete exactly when the
\* counts of the current level, after the increment, sum to the level's
\* total_enemy_tanks; it then appends the level to completed_levels and
\* either moves current_level to the next level and answers next_level, when
\* that level exists, or answers game_complete and keeps current_level; the
\* run stays in the store.  An event that does not complete the level leaves
\* completed_levels and current_level alone.
C4_LevelCompletion ==
    [][\A r \in RequestRunIds, t \in TankTypeInputs :
          (/\ response'.op = "game_event" /\ response'.status = 200
           /\ ~response'.level_reset
           /\ response'.run_id = r /\ response'.tank_type = t
           /\ GameEvent(r, t))
          => /\ r \in DOMAIN ACTIVE_RUNS'
             /\ LET before == ACTIVE_RUNS[r]
                    after  == ACTIVE_RUNS'[r]
                    level  == before.current_level
                    full   == SumValues(after.tanks_eliminated[level])
                                  = LEVEL_METADATA[level].total_enemy_tanks
                IN  /\ Count(after, level, t) = Count(before, level, t) + 1
                    /\ response'.level_complete <=> full
                    /\ full =>
                         /\ after.completed_levels
                                = Append(before.completed_levels, level)
                         /\ IF level + 1 \in DOMAIN LEVEL_METADATA
                            THEN /\ after.current_level = level + 1
                                 /\ response'.next_level = level + 1
                                 /\ ~response'.game_complete
                            ELSE /\ after.current_level = level
                                 /\ response'.game_complete
                                 /\ response'.next_level = -1
                    /\ ~full =>
                         /\ after.completed_levels = before.completed_levels
                         /\ after.current_level = before.current_level
                         /\ ~response'.game_complete
                         /\ response'.next_level = -1]_vars

\* C4 witness: the last level was completed by an event that followed the
\* completion of level 1: both outcomes of a completed level have happened
C4_Witness ==
    /\ response.op = "game_event"
    /\ response.level_complete
    /\ response.game_complete
    /\ response.run_id \in DOMAIN ACTIVE_RUNS
    /\ ACTIVE_RUNS[response.run_id].completed_levels = <<1, 2>>
    /\ ACTIVE_RUNS[response.run_id].current_level = 2

\* C5: a player event for a run of the store clears the counts of the run's
\* current level, answers level_reset, and leaves current_level,
\* completed_levels, start_time, end_time and the counts of every other
\* level as they were.
C5_PlayerEventResetsLevel ==
    [][\A r \in RequestRunIds, t \in PlayerTypes :
          (/\ r \in DOMAIN ACTIVE_RUNS
           /\ response'.op = "game_event"
           /\ response'.run_id = r /\ response'.tank_type = t
           /\ GameEvent(r, t))
          => /\ response'.status = 200
             /\ response'.level_reset
             /\ r \in DOMAIN ACTIVE_RUNS'
             /\ LET before == ACTIVE_RUNS[r]
                    after  == ACTIVE_RUNS'[r]
                    level  == before.current_level
                IN  /\ level \notin DOMAIN after.tanks_eliminated
                    /\ DOMAIN after.tanks_eliminated
                           = DOMAIN before.tanks_eliminated \ {level}
                    /\ \A l \in DOMAIN after.tanks_eliminated :
                           after.tanks_eliminated[l] = before.tanks_eliminated[l]
                    /\ after.current_level = before.current_level
                    /\ after.completed_levels = before.completed_levels
                    /\ after.start_time = before.start_time
                    /\ after.end_time = before.end_time
                    /\ response'.current_level = before.current_level]_vars

\* C5 witness: a player event was answered for a run on level 2 whose end
\* time is frozen; the counts of level 1 are still there, those of level 2
\* are gone
C5_Witness ==
    /\ response.op = "game_event"
    /\ response.level_reset
    /\ response.run_id \in DOMAIN ACTIVE_RUNS
    /\ LET game_state == ACTIVE_RUNS[response.run_id]
       IN  /\ game_state.current_level = 2
           /\ game_state.completed_levels = <<1, 2>>
           /\ DOMAIN game_state.tanks_eliminated = {1}
           /\ game_state.end_time # NoEndTime


\* a request that passes the validation of routes.py:236-243
ValidSubmit(in) ==
    /\ in[1] >= 1 /\ in[1] <= MAX_USERNAME
    /\ in[2] = 0 \/ in[2] <= MAX_EMAIL

\* C6: the end time of a run, once set, is changed by no request, and every
\* /get-final-stats after the first answers the time the first answered.
C6_EndTimeFrozenOnce ==
    [][/\ \A r \in DOMAIN ACTIVE_RUNS :
             ACTIVE_RUNS[r].end_time # NoEndTime
             => /\ r \in DOMAIN ACTIVE_RUNS'
                /\ ACTIVE_RUNS'[r].end_time = ACTIVE_RUNS[r].end_time
       /\ \A r \in RequestRunIds :
             (/\ r \in DOMAIN final_stats
              /\ response'.op = "get_final_stats" /\ response'.run_id = r
              /\ GetFinalStats(r))
             => /\ response'.status = 200
                /\ response'.time = final_stats[r].first]_vars

\* C6 witness: /get-final-stats was answered again for a run, later than the
\* run's end time was frozen, and after a /game-event moved the run on
C6_Witness ==
    /\ response.op = "get_final_stats"
    /\ response.status = 200
    /\ response.run_id \in DOMAIN final_stats
    /\ final_stats[response.run_id].again
    /\ response.at > ACTIVE_RUNS[response.run_id].end_time
    /\ response.time = final_stats[response.run_id].first
    /\ response.final_level = 2

\* C7: when /get-final-stats answered for a run before /submit-score, the
\* time /submit-score computes for the entry is the one /get-final-stats
\* answered: formatted_time is the same string, and time_seconds is the
\* frozen elapsed time truncated to whole seconds.
C7_SubmitChargesReportedTime ==
    [][\A r \in RequestRunIds, in \in SubmitInputs :
          (/\ r \in DOMAIN final_stats
           /\ response'.op = "submit_score" /\ response'.run_id = r
           /\ response'.status \notin {400, 404}
           /\ SubmitScore(r, in[1], in[2]))
          => LET elapsed == ACTIVE_RUNS[r].end_time - ACTIVE_RUNS[r].start_time
             IN  /\ response'.time = final_stats[r].first
                 /\ elapsed >= 0
                 /\ response'.time_seconds * TicksPerSecond <= elapsed
                 /\ elapsed < (response'.time_seconds + 1) * TicksPerSecond]_vars

\* C7 witness: /submit-score computed 1:01 for a run whose /get-final-stats
\* had answered 1:01 for an elapsed time of a fraction over 61 seconds
C7_Witness ==
    /\ response.op = "submit_score"
    /\ response.status \notin {400, 404}
    /\ response.run_id \in DOMAIN final_stats
    /\ response.time = final_stats[response.run_id].first
    /\ response.time = "1:01"
    /\ response.time_seconds = 61

\* C8: a /submit-score that passes validation and names a run of the store
\* succeeds and removes the run, so that a later request naming the run is
\* answered 404.
C8_SubmitRemovesRun ==
    [][\A r \in RequestRunIds, in \in SubmitInputs :
          (/\ ValidSubmit(in)
           /\ r \in DOMAIN ACTIVE_RUNS
           /\ response'.op = "submit_score" /\ response'.run_id = r
           /\ SubmitScore(r, in[1], in[2]))
          => /\ response'.status = 200
             /\ r \notin DOMAIN ACTIVE_RUNS']_vars

C10_RetryAfterFailedPersist ==
    [][\A r \in RequestRunIds, in \in SubmitInputs :
          (/\ ValidSubmit(in)
           /\ r \in DOMAIN ACTIVE_RUNS
           /\ response'.op = "submit_score" /\ response'.run_id = r
           /\ SubmitScore(r, in[1], in[2]))
          => /\ response'.status = 500
                => /\ r \in DOMAIN ACTIVE_RUNS'
                   /\ ACTIVE_RUNS'[r].current_level = ACTIVE_RUNS[r].current_level
                   /\ ACTIVE_RUNS'[r].completed_levels
                          = ACTIVE_RUNS[r].completed_levels
                   /\ ACTIVE_RUNS'[r].tanks_eliminated
                          = ACTIVE_RUNS[r].tanks_eliminated
                   /\ ACTIVE_RUNS'[r].start_time = ACTIVE_RUNS[r].start_time
             /\ (/\ response.op = "submit_score"
                 /\ response.run_id = r
                 /\ response.status = 500)
                => /\ response'.status = 200
                   /\ response'.time_seconds = response.time_seconds]_vars

\* C11: a /game-event that names a run id which is not in the store is
\* answered 404 "Run not found" for every tank type, the player type
\* included, and leaves the store unchanged
C11_UnknownRunNotFound ==
    [][\A r \in RequestRunIds, t \in TankTypeInputs :
          (/\ response'.op = "game_event"
           /\ response'.run_id = r /\ response'.tank_type = t
           /\ r \notin DOMAIN ACTIVE_RUNS
           /\ GameEvent(r, t))
          => /\ response'.status = 404
             /\ response'.detail = "Run not found"
             /\ ACTIVE_RUNS' = ACTIVE_RUNS]_vars

\* the run completed its last level: game_complete was answered, which is the
\* one case where a completed level stays the current level (routes.py:170-183)
GameCompleted(game_state) ==
    \E i \in DOMAIN game_state.completed_levels :
        game_state.completed_levels[i] = game_state.current_level

\* C12: once a run completed its last level, every /level for that run
\* answers the game-complete indicator with final_level the last completed
\* level, and no static level content
C12_LevelAfterGameComplete ==
    [][\A r \in RequestRunIds :
          (/\ response'.op = "level" /\ response'.run_id = r
           /\ r \in DOMAIN ACTIVE_RUNS
           /\ GameCompleted(ACTIVE_RUNS[r])
           /\ GetCurrentLevel(r))
          => /\ response'.game_complete
             /\ response'.detail # "map"
             /\ response'.final_level =
                    ACTIVE_RUNS[r].completed_levels[
                        Len(ACTIVE_RUNS[r].completed_levels)]]_vars

\* the details of the two rejections that precede the tracking of an event
ValidationDetails == {"Invalid level", "Invalid tank type for current level"}

\* C13: an enemy event rejected with "Invalid level" or "Invalid tank type
\* for current level" leaves the whole store unchanged, the presence of an
\* elimination entry for the current level included
C13_RejectedEventLeavesRun ==
    [][\A r \in RequestRunIds, t \in TankTypeInputs :
          (/\ response'.op = "game_event"
           /\ response'.detail \in ValidationDetails
           /\ response'.run_id = r /\ response'.tank_type = t
           /\ GameEvent(r, t))
          => ACTIVE_RUNS' = ACTIVE_RUNS]_vars

\* an event of a known enemy type the current level does not hold was
\* rejected while the run had no elimination entry for its current level
C13_Witness ==
    /\ response.op = "game_event"
    /\ response.detail = "Invalid tank type for current level"
    /\ response.run_id \in DOMAIN ACTIVE_RUNS
    /\ ACTIVE_RUNS[response.run_id].current_level
           \notin DOMAIN ACTIVE_RUNS[response.run_id].tanks_eliminated

\* an event was rejected because the current level is not in the catalog
C13_WitnessInvalidLevel ==
    /\ response.op = "game_event"
    /\ response.detail = "Invalid level"
    /\ response.run_id \in DOMAIN ACTIVE_RUNS
    /\ ACTIVE_RUNS[response.run_id].tanks_eliminated = <<>>

\* the store after the events first and second, handled one after the other
InOrder(runs, run_id, first, second) ==
    game_event(game_event(runs, run_id, first).runs, run_id, second).runs

\* C15: when two /game-event requests for one run were handled together,
\* the store is the one that handling them one after the other, in one of
\* the two orders, produces from the store they found
C15_EventsSerialized ==
    AllReturned
    => LET run_id == handlers[1].run_id
           first  == handlers[1].tank_type
           second == handlers[2].tank_type
       IN  ACTIVE_RUNS \in {InOrder(accepted, run_id, first, second),
                            InOrder(accepted, run_id, second, first)}

\* two events of the same enemy type were handled together, both were
\* accepted, the one handled second completed the level, and the count of
\* the type rose by two
C15_Witness ==
    /\ AllReturned
    /\ handlers[1].tank_type = handlers[2].tank_type
    /\ handlers[1].response.status = 200
    /\ handlers[2].response.status = 200
    /\ handlers[1].response.level_complete # handlers[2].response.level_complete
    /\ LET run_id == handlers[1].run_id
           level  == accepted[run_id].current_level
       IN  /\ Count(ACTIVE_RUNS[run_id], level, handlers[1].tank_type)
                 = Count(accepted[run_id], level, handlers[1].tank_type) + 2
           /\ Len(ACTIVE_RUNS[run_id].completed_levels)
                 = Len(accepted[run_id].completed_levels) + 1

\* C16: the current level of every run of the store is a level of the
\* catalog, or the run is finished; /start-game and the advance to the next
\* level never put a run on a level the catalog does not hold
C16_CurrentLevelInCatalog ==
    \A r \in DOMAIN ACTIVE_RUNS :
        \/ ACTIVE_RUNS[r].current_level \in DOMAIN LEVEL_METADATA
        \/ GameCompleted(ACTIVE_RUNS[r])

\* the advance to the next level alone keeps the run inside the catalog
C16_AdvanceStaysInCatalog ==
    [][\A r \in DOMAIN ACTIVE_RUNS :
          (/\ r \in DOMAIN ACTIVE_RUNS'
           /\ ACTIVE_RUNS'[r].current_level # ACTIVE_RUNS[r].current_level)
          => ACTIVE_RUNS'[r].current_level \in DOMAIN LEVEL_METADATA]_vars

\* the contact rows that hold the pair (username, email)
ContactRows(rows, username, email) ==
    {i \in DOMAIN rows : rows[i].username = username /\ rows[i].email = email}

\* C18: a /submit-score that carries an email, for a run of the store,
\* succeeds whether or not the pair (username, email) is already a contact:
\* the entry is persisted, the run is removed, and the contact table holds
\* the pair exactly once
C18_DuplicateContactSucceeds ==
    [][\A r \in RequestRunIds, in \in SubmitInputs :
          (/\ response'.op = "submit_score" /\ response'.run_id = r
           /\ r \in DOMAIN ACTIVE_RUNS
           /\ ValidSubmit(in) /\ in[2] # 0
           /\ SubmitScore(r, in[1], in[2]))
          => /\ response'.status = 200
             /\ Len(leaderboard') = Len(leaderboard) + 1
             /\ r \notin DOMAIN ACTIVE_RUNS'
             /\ Cardinality(ContactRows(contact_info', in[1], in[2])) = 1]_vars

\* C19: an elimination event for a run of the store whose type is an enemy
\* type of the current level, a type outside TANK_TYPES included, is accepted
\* and counted while the count is below the catalog count; an event whose
\* type is neither the player type nor an enemy type of the current level is
\* rejected with "Invalid tank type for current level"
C19_EnemyTypesOfTheLevel ==
    [][\A r \in RequestRunIds, t \in TankTypeInputs \ PlayerTypes :
          (/\ response'.op = "game_event"
           /\ response'.run_id = r /\ response'.tank_type = t
           /\ r \in DOMAIN ACTIVE_RUNS
           /\ ACTIVE_RUNS[r].current_level \in DOMAIN LEVEL_METADATA
           /\ GameEvent(r, t))
          => LET level == ACTIVE_RUNS[r].current_level
                 types == LEVEL_METADATA[level].enemy_tank_types
             IN  IF t \notin DOMAIN types
                 THEN /\ response'.status = 400
                      /\ response'.detail = "Invalid tank type for current level"
                 ELSE Count(ACTIVE_RUNS[r], level, t) < types[t]
                      => /\ response'.status = 200
                         /\ Count(ACTIVE_RUNS'[r], level, t)
                                = Count(ACTIVE_RUNS[r], level, t) + 1]_vars

\* every cell code above 3 of a level map is an enemy type of the level
C19_CellCodesAreEnemyTypes ==
    \A n \in DOMAIN MAPS_DIR :
        \A i \in DOMAIN MAPS_DIR[n] :
            \A j \in DOMAIN MAPS_DIR[n][i] :
                MAPS_DIR[n][i][j] > 3
                => MAPS_DIR[n][i][j]
                       \in DOMAIN LEVEL_METADATA[n].enemy_tank_types

\* completed_levels is strictly ascending
CompletedAscending(game_state) ==
    \A i, j \in DOMAIN game_state.completed_levels :
        i < j => game_state.completed_levels[i] < game_state.completed_levels[j]

\* completed_levels holds every level below the current level exactly once
CompletedBelowCurrent(game_state) ==
    \A l \in 1 .. (game_state.current_level - 1) :
        Cardinality({i \in DOMAIN game_state.completed_levels :
                        game_state.completed_levels[i] = l}) = 1

\* current_level changes only by +1, on an accepted completing enemy event
C20_LevelAdvancesByOne ==
    [][\A r \in DOMAIN ACTIVE_RUNS :
          (/\ r \in DOMAIN ACTIVE_RUNS'
           /\ ACTIVE_RUNS'[r].current_level # ACTIVE_RUNS[r].current_level)
          => /\ ACTIVE_RUNS'[r].current_level
                    = ACTIVE_RUNS[r].current_level + 1
             /\ response'.op = "game_event" /\ response'.run_id = r
             /\ response'.status = 200 /\ response'.level_complete]_vars

\* the levels below the current level are completed exactly once each
C20_CompletedBelowCurrent ==
    \A r \in DOMAIN ACTIVE_RUNS : CompletedBelowCurrent(ACTIVE_RUNS[r])

\* C20: current_level is changed only by +1 steps of accepted completing
\* enemy events, and completed_levels is strictly ascending and holds every
\* level below current_level exactly once, so that the stage a submission
\* computes is one more than the number of levels completed before the
\* current one
C20_LevelProgress ==
    [][\A r \in DOMAIN ACTIVE_RUNS' :
          /\ CompletedAscending(ACTIVE_RUNS'[r])
          /\ CompletedBelowCurrent(ACTIVE_RUNS'[r])
          /\ (response'.op = "submit_score" /\ response'.run_id = r
               /\ response'.final_level # -1)
              => response'.final_level
                     = 1 + Cardinality(
                         {l \in 1 .. ACTIVE_RUNS'[r].current_level - 1 :
                            \E i \in DOMAIN ACTIVE_RUNS'[r].completed_levels :
                               ACTIVE_RUNS'[r].completed_levels[i] = l})
          /\ (/\ r \in DOMAIN ACTIVE_RUNS
               /\ ACTIVE_RUNS'[r].current_level # ACTIVE_RUNS[r].current_level)
              => /\ ACTIVE_RUNS'[r].current_level
                        = ACTIVE_RUNS[r].current_level + 1
                 /\ response'.op = "game_event" /\ response'.run_id = r
                 /\ response'.status = 200 /\ response'.level_complete]_vars

\* the age, in ticks, above which cleanup_old_runs removes a run
MaxAge == MAX_AGE_SECONDS * TicksPerSecond

\* C14: a /start-game that finds more than CLEANUP_THRESHOLD runs in the store
\* removes exactly the runs started more than MAX_AGE_SECONDS before now:
\* afterwards no such run is left, and every younger run is still there with
\* its state unchanged; a /start-game that finds fewer runs removes none
C14_EvictsExactlyOldRuns ==
    [][(response'.op = "start_game" /\ uuids' # uuids)
       => /\ \A r \in DOMAIN ACTIVE_RUNS :
                IF /\ Cardinality(DOMAIN ACTIVE_RUNS) > CLEANUP_THRESHOLD
                   /\ now - ACTIVE_RUNS[r].start_time > MaxAge
                THEN r \notin DOMAIN ACTIVE_RUNS'
                ELSE /\ r \in DOMAIN ACTIVE_RUNS'
                     /\ ACTIVE_RUNS'[r] = ACTIVE_RUNS[r]
          /\ Cardinality(DOMAIN ACTIVE_RUNS) > CLEANUP_THRESHOLD
             => \A r \in DOMAIN ACTIVE_RUNS' :
                   now - ACTIVE_RUNS'[r].start_time <= MaxAge]_vars

\* a /start-game evicted the runs older than MAX_AGE_SECONDS and kept a run
\* that is exactly MAX_AGE_SECONDS old and has completed a level
C14_Witness ==
    /\ response.op = "start_game"
    /\ response.at = now
    /\ 1 \notin DOMAIN ACTIVE_RUNS
    /\ Cardinality(DOMAIN ACTIVE_RUNS) > 1
    /\ CLEANUP_THRESHOLD \in DOMAIN ACTIVE_RUNS
    /\ now - ACTIVE_RUNS[CLEANUP_THRESHOLD].start_time = MaxAge
    /\ ACTIVE_RUNS[CLEANUP_THRESHOLD].completed_levels # <<>>

\* C17: a request that names run r changes neither the state nor the
\* presence of any other run; only a /start-game that finds more than
\* CLEANUP_THRESHOLD runs in the store may remove other runs
C17_OtherRunsUntouched ==
    [][\A q \in DOMAIN ACTIVE_RUNS :
          (/\ q # response'.run_id
           /\ ~(/\ response'.op = "start_game"
                /\ Cardinality(DOMAIN ACTIVE_RUNS) > CLEANUP_THRESHOLD))
          => /\ q \in DOMAIN ACTIVE_RUNS'
             /\ ACTIVE_RUNS'[q] = ACTIVE_RUNS[q]]_vars

\* a request on one run froze its end time, or was an accepted enemy event,
\* while the other run was in progress with eliminations of its own and no
\* end time
C17_Witness ==
    /\ DOMAIN ACTIVE_RUNS = TwoRunIds
    /\ response.run_id \in TwoRunIds
    /\ response.op = "get_final_stats"
    /\ response.status = 200
    /\ \E q \in TwoRunIds \ {response.run_id} :
          /\ ACTIVE_RUNS[q].tanks_eliminated # <<>>
          /\ ACTIVE_RUNS[q].end_time = NoEndTime
          /\ ACTIVE_RUNS[q].current_level = 2

=============================================================================
